---- MODULE Spec2Model ----
(***************************************************************************)
(* A model of scrape.py (ModelScrapOR): the batch pipeline run by main():  *)
(* credential check, fetch_models, categorize_models, generate_html and    *)
(* the two file writes.                                                    *)
(*                                                                         *)
(* Strings that the program inspects (model names, identifiers, keywords)  *)
(* are sequences of one-character strings, so that str.lower() and the     *)
(* substring test `kw in name_lower` are computed, not assumed.            *)
(*                                                                         *)
(* A raw per-token price is written as an integer number of RawUnit-ths of *)
(* a dollar (2 stands for 0.000002).  On the prices used here the IEEE     *)
(* double products and sums of the program are exact, so the derived       *)
(* per-million prices are the integers computed below.                     *)
(*                                                                         *)
(* A Python dict is a record with a field `keys` holding the set of keys   *)
(* that are present; the value stored under an absent key is never read.   *)
(***************************************************************************)
EXTENDS Integers, Sequences, FiniteSets, TLC

(***************************************************************************)
(* Bounds of the model.                                                    *)
(***************************************************************************)
\* longest upstream batch drawn freely from RawPool
MaxBatch == 3
\* largest raw price of the calls of calculate_conversation_cost
MaxCostPrice == 6
\* number of generated records in the long upstream batches
FillerN == 30

(***************************************************************************)
(* Program constants.                                                      *)
(***************************************************************************)
CATEGORIES ==
  << "Programming", "Roleplay", "Marketing", "SEO", "Technology", "Science",
     "Translation", "Legal", "Finance", "Health", "Trivia", "Academia" >>

CategorySet == { CATEGORIES[i] : i \in 1..Len(CATEGORIES) }

\* the dict `keywords` of categorize_models
keywords == [ category \in CategorySet |->
  CASE   "Programming" = category -> <<
            <<"c","o","d","e">>,
            <<"c","o","d","e","r">>,
            <<"c","o","d","i","n","g">>,
            <<"p","r","o","g","r","a","m">>,
            <<"d","e","v">>,
            <<"d","e","v","s","t","r","a","l">> >>
    [] "Roleplay" = category -> <<
            <<"r","o","l","e","p","l","a","y">>,
            <<"r","p">>,
            <<"c","h","a","r","a","c","t","e","r">>,
            <<"c","h","a","t">>,
            <<"s","t","o","r","y">>,
            <<"c","r","e","a","t","i","v","e">> >>
    [] "Marketing" = category -> <<
            <<"m","a","r","k","e","t","i","n","g">>,
            <<"b","u","s","i","n","e","s","s">>,
            <<"c","o","n","t","e","n","t">>,
            <<"c","o","p","y","w","r","i","t","i","n","g">> >>
    [] "SEO" = category -> <<
            <<"s","e","o">>,
            <<"s","e","a","r","c","h">>,
            <<"o","p","t","i","m","i","z","a","t","i","o","n">> >>
    [] "Technology" = category -> <<
            <<"t","e","c","h">>,
            <<"t","e","c","h","n","i","c","a","l">>,
            <<"s","y","s","t","e","m">>,
            <<"e","n","g","i","n","e","e","r","i","n","g">> >>
    [] "Science" = category -> <<
            <<"s","c","i","e","n","c","e">>,
            <<"s","c","i","e","n","t","i","f","i","c">>,
            <<"r","e","s","e","a","r","c","h">>,
            <<"a","c","a","d","e","m","i","c">> >>
    [] "Translation" = category -> <<
            <<"t","r","a","n","s","l","a","t","e">>,
            <<"t","r","a","n","s","l","a","t","i","o","n">>,
            <<"l","a","n","g","u","a","g","e">>,
            <<"m","u","l","t","i","l","i","n","g","u","a","l">> >>
    [] "Legal" = category -> <<
            <<"l","e","g","a","l">>,
            <<"l","a","w">>,
            <<"c","o","m","p","l","i","a","n","c","e">> >>
    [] "Finance" = category -> <<
            <<"f","i","n","a","n","c","e">>,
            <<"f","i","n","a","n","c","i","a","l">>,
            <<"e","c","o","n","o","m","i","c","s">>,
            <<"t","r","a","d","i","n","g">> >>
    [] "Health" = category -> <<
            <<"h","e","a","l","t","h">>,
            <<"m","e","d","i","c","a","l">>,
            <<"h","e","a","l","t","h","c","a","r","e">>,
            <<"c","l","i","n","i","c","a","l">> >>
    [] "Trivia" = category -> <<
            <<"t","r","i","v","i","a">>,
            <<"q","u","i","z">>,
            <<"g","e","n","e","r","a","l">>,
            <<"k","n","o","w","l","e","d","g","e">> >>
    [] "Academia" = category -> <<
            <<"a","c","a","d","e","m","i","c">>,
            <<"s","c","h","o","l","a","r">>,
            <<"r","e","s","e","a","r","c","h">>,
            <<"e","d","u","c","a","t","i","o","n">> >> ]

\* the list ["Technology", "Trivia", "Academia"] of the per-record fallback
GeneralCategories == << "Technology", "Trivia", "Academia" >>

GeneralSet == { GeneralCategories[i] : i \in 1..Len(GeneralCategories) }

\* `[:10]` of the backfill in categorize_models
BackfillCount == 10

\* `[:25]` of the views of generate_html
ViewCap == 25

\* the scaling factor of input_price and output_price
PerMillion == 1000000

\* a raw price p stands for p / RawUnit dollars per token
RawUnit == 1000000

\* rankings_map.get(model.id, '?') answers '?' for an absent identifier;
\* ranks are positive, so 0 stands for '?'
UnknownRank == 0

(***************************************************************************)
(* Strings.                                                                *)
(***************************************************************************)
UpperCase ==
  << "A","B","C","D","E","F","G","H","I","J","K","L","M",
     "N","O","P","Q","R","S","T","U","V","W","X","Y","Z" >>

LowerCase ==
  << "a","b","c","d","e","f","g","h","i","j","k","l","m",
     "n","o","p","q","r","s","t","u","v","w","x","y","z" >>

\* str.lower() on one character
LowerChar(ch) ==
  IF \E i \in 1..Len(UpperCase) : UpperCase[i] = ch
  THEN LowerCase[CHOOSE i \in 1..Len(UpperCase) : UpperCase[i] = ch]
  ELSE ch

\* str.lower()
lower(s) == [ i \in 1..Len(s) |-> LowerChar(s[i]) ]

\* the Python substring test `kw in s`
Contains(kw, s) ==
  \E i \in 1..(Len(s) - Len(kw) + 1) : SubSeq(s, i, i + Len(kw) - 1) = kw

\* the decimal digit n as a character
Digit(n) == << "0","1","2","3","4","5","6","7","8","9" >>[n + 1]

(***************************************************************************)
(* Values of the upstream JSON.                                            *)
(***************************************************************************)
\* a JSON number or numeric string: float() accepts it
Num(n) == [ kind |-> "num", val |-> n ]

\* a JSON string that float() rejects with ValueError
Text == [ kind |-> "text", val |-> 0 ]

\* a pricing dict with both keys, with `prompt` only, and the empty dict
Pricing(p, c) == [ keys |-> {"prompt", "completion"}, prompt |-> p, completion |-> c ]

PromptOnly(p) == [ keys |-> {"prompt"}, prompt |-> p, completion |-> Num(0) ]

EmptyDict == [ keys |-> {}, prompt |-> Num(0), completion |-> Num(0) ]

\* dict.get(key, default) on a pricing dict
PricingGet(pricing, key, default) ==
  IF key \in pricing.keys THEN pricing[key] ELSE default

\* an upstream record: `keys` are the fields it carries
RawRecord(ks, id, name, pricing) ==
  [ keys |-> ks, id |-> id, name |-> name, pricing |-> pricing ]

NoString == << >>

AllKeys == {"id", "name", "pricing"}

(***************************************************************************)
(* The upstream batches the fetch may answer with.                         *)
(***************************************************************************)
RawPool ==
  { RawRecord(AllKeys, <<"a">>, <<"C","o","d","e","M","a","s","t","e","r">>,
              Pricing(Num(0), Num(0))),
    RawRecord(AllKeys, <<"b">>, <<"G","e","n","e","r","i","c"," ","C","h","a","t">>,
              Pricing(Num(2), Num(6))),
    RawRecord({"name", "pricing"}, NoString, <<"N","o","I","d">>,
              Pricing(Num(1), Num(1))),
    RawRecord({"id", "pricing"}, <<"n">>, NoString,
              Pricing(Num(1), Num(1))),
    RawRecord(AllKeys, <<"q">>, <<"Q","e","d">>,
              Pricing(Text, Num(1))),
    RawRecord(AllKeys, <<"z">>, <<"Z","e","d">>,
              Pricing(Num(6), Num(2))),
    RawRecord({"id", "name"}, <<"a">>, <<"R","e","s","e","a","r","c","h"," ","C","o","d","e">>,
              EmptyDict),
    RawRecord(AllKeys, <<"d","e","v","/","h">>, <<"H","a","l","f">>,
              PromptOnly(Num(3))),
    RawRecord(AllKeys, <<"w">>, <<"W","y","e">>,
              Pricing(Num(0), Num(5))) }

RECURSIVE SeqsUpTo(_, _)
SeqsUpTo(S, n) ==
  IF n = 0 THEN { << >> }
  ELSE LET shorter == SeqsUpTo(S, n - 1)
       IN  shorter \cup { Append(s, x) : s \in shorter, x \in S }

\* the i-th generated record: identifier m<dd>, name M<dd>, free unless 9 | i
FillerRecord(i) ==
  RawRecord(AllKeys,
            << "m", Digit((i \div 10) % 10), Digit(i % 10) >>,
            << "M", Digit((i \div 10) % 10), Digit(i % 10) >>,
            Pricing(Num(IF i % 9 = 0 THEN 1 ELSE 0), Num(0)))

Filler == [ i \in 1..FillerN |-> FillerRecord(i) ]

Batches ==
  SeqsUpTo(RawPool, MaxBatch)
    \cup { Filler }
    \cup { <<r>> \o Filler : r \in RawPool }
    \cup { Filler \o <<r>> : r \in RawPool }

(***************************************************************************)
(* class Model.                                                            *)
(***************************************************************************)
\* the dataclass constructor: the fields are stored as given.  A Model is an
\* object and the lists of the program hold references to it: `ref` is the
\* object's identity, its number in the order of construction.
Model(ref, id, name, pricing) ==
  [ ref |-> ref, id |-> id, name |-> name, pricing |-> pricing ]

\* float(x) raises ValueError on a non-numeric string
FloatRaises(v) == v.kind = "text"

float(v) == v.val

\* some price property of m raises ValueError
PriceRaises(m) ==
  \/ FloatRaises(PricingGet(m.pricing, "prompt", Num(0)))
  \/ FloatRaises(PricingGet(m.pricing, "completion", Num(0)))

\* price per million input tokens, in dollars
input_price(m) ==
  (float(PricingGet(m.pricing, "prompt", Num(0))) * PerMillion) \div RawUnit

\* price per million output tokens, in dollars
output_price(m) ==
  (float(PricingGet(m.pricing, "completion", Num(0))) * PerMillion) \div RawUnit

\* is_free with `or` in place of `and`
is_free_Either(m) == input_price(m) = 0 \/ output_price(m) = 0

is_free(m) == input_price(m) = 0 /\ output_price(m) = 0

\* total_price leaving out the output price
total_price_InputOnly(m) == input_price(m)

total_price(m) == input_price(m) + output_price(m)

(***************************************************************************)
(* Natural numbers of any size, for the arithmetic of IEEE doubles: a      *)
(* number is the sequence of its digits to the base LimbBase, the least    *)
(* significant first and without leading zeros (0 is the empty sequence).  *)
(***************************************************************************)
LimbBits == 10

LimbBase == 1024

\* the i-th digit of x, 0 beyond its length
Limb(x, i) == IF i <= Len(x) THEN x[i] ELSE 0

\* x without its leading zero digits
Trim(x) ==
  LET nz == { i \in 1..Len(x) : x[i] # 0 }
  IN  IF nz = {} THEN << >>
      ELSE SubSeq(x, 1, CHOOSE i \in nz : \A j \in nz : j <= i)

\* the digits of the number whose i-th column holds cols[i], any integer
RECURSIVE Carry(_, _, _, _)
Carry(cols, i, carry, acc) ==
  IF i > Len(cols) /\ carry = 0 THEN acc
  ELSE LET v == Limb(cols, i) + carry
       IN  Carry(cols, i + 1, v \div LimbBase, Append(acc, v % LimbBase))

Norm(cols) == Trim(Carry(cols, 1, 0, << >>))

IntToBig(n) == Norm(<< n >>)

Longer(x, y) == IF Len(x) < Len(y) THEN Len(y) ELSE Len(x)

BigAdd(x, y) == Norm([ i \in 1..Longer(x, y) |-> Limb(x, i) + Limb(y, i) ])

\* x - y, for y <= x
BigSub(x, y) == Norm([ i \in 1..Longer(x, y) |-> Limb(x, i) - Limb(y, i) ])

\* x * c for a small c (below 2^20)
BigMulSmall(x, c) == Norm([ i \in 1..Len(x) |-> x[i] * c ])

RECURSIVE ColumnSum(_, _, _, _, _)
ColumnSum(x, y, k, i, acc) ==
  IF i > Len(x) \/ i > k THEN acc
  ELSE ColumnSum(x, y, k, i + 1, acc + x[i] * Limb(y, k + 1 - i))

BigMul(x, y) ==
  Norm([ k \in 1..(Len(x) + Len(y)) |-> ColumnSum(x, y, k, 1, 0) ])

\* x * LimbBase^n
ShiftLimbs(x, n) == IF x = << >> THEN << >> ELSE [ i \in 1..n |-> 0 ] \o x

\* x * 2^s
BigShl(x, s) == ShiftLimbs(BigMulSmall(x, 2 ^ (s % LimbBits)), s \div LimbBits)

\* floor(x / 2^s)
BigShr(x, s) ==
  LET a == s \div LimbBits
      b == s % LimbBits
  IN  Trim([ j \in 1..(Len(x) - a) |->
               (Limb(x, a + j) \div 2 ^ b)
                 + (Limb(x, a + j + 1) % 2 ^ b) * 2 ^ (LimbBits - b) ])

\* quotient and remainder of x by a small d (at most 2^20), digit by digit
\* from the most significant one
RECURSIVE DivFrom(_, _, _, _, _)
DivFrom(x, d, i, r, q) ==
  IF i = 0 THEN [ q |-> Trim(q), r |-> r ]
  ELSE LET v == r * LimbBase + x[i]
       IN  DivFrom(x, d, i - 1, v % d, << v \div d >> \o q)

BigDivSmall(x, d) == DivFrom(x, d, Len(x), 0, << >>)

\* x <= y
BigLeq(x, y) ==
  IF Len(x) # Len(y) THEN Len(x) < Len(y)
  ELSE LET diff == { i \in 1..Len(x) : x[i] # y[i] }
       IN  IF diff = {} THEN TRUE
           ELSE LET top == CHOOSE i \in diff : \A j \in diff : j <= i
                IN  x[top] < y[top]

\* the number of binary digits of x
BitLen(x) ==
  IF x = << >> THEN 0
  ELSE LimbBits * (Len(x) - 1)
         + (CHOOSE n \in 1..LimbBits : 2 ^ (n - 1) <= x[Len(x)] /\ x[Len(x)] < 2 ^ n)

\* the binary digit of x of weight 2^i
Bit(x, i) == (Limb(x, i \div LimbBits + 1) \div 2 ^ (i % LimbBits)) % 2

(***************************************************************************)
(* IEEE 754 binary64, for the finite non-negative values the prices and    *)
(* costs take: a double is 0 or m * 2^e with 2^52 <= m < 2^53.  Every      *)
(* operation is the exact result rounded to nearest, ties to even.         *)
(***************************************************************************)
MantissaBits == 53

\* binary digits by which Round scales its dividend before dividing
GuardBits == 80

Zero64 == [ m |-> << >>, e |-> 0 ]

\* the double nearest to (n / d) * 2^e, for a small d
Round(n, d, e) ==
  IF n = << >> THEN Zero64
  ELSE LET scaled == BigDivSmall(BigShl(n, GuardBits), d)
           k      == BitLen(scaled.q) - MantissaBits
           m      == BigShr(scaled.q, k)
           half   == Bit(scaled.q, k - 1) = 1
           sticky == scaled.r # 0 \/ \E i \in 0..(k - 2) : Bit(scaled.q, i) = 1
           up     == half /\ (sticky \/ Bit(m, 0) = 1)
           m1     == IF up THEN BigAdd(m, IntToBig(1)) ELSE m
       IN  IF BitLen(m1) > MantissaBits
           THEN [ m |-> BigShr(m1, 1), e |-> e - GuardBits + k + 1 ]
           ELSE [ m |-> m1, e |-> e - GuardBits + k ]

\* a Python int as a float
FromInt(n) == Round(IntToBig(n), 1, 0)

\* the true division a / b of two Python ints
IntTrueDiv(a, b) == Round(IntToBig(a), b, 0)

\* x * y on floats
fmul(x, y) ==
  IF x.m = << >> \/ y.m = << >> THEN Zero64
  ELSE Round(BigMul(x.m, y.m), 1, x.e + y.e)

\* x + y on floats
fadd(x, y) ==
  IF x.m = << >> THEN y
  ELSE IF y.m = << >> THEN x
  ELSE LET low == IF x.e < y.e THEN x.e ELSE y.e
       IN  Round(BigAdd(BigShl(x.m, x.e - low), BigShl(y.m, y.e - low)), 1, low)

\* float() of a pricing value: the decimal v.val / RawUnit, correctly rounded
float64(v) == Round(IntToBig(v.val), RawUnit, 0)

\* Model.input_price and Model.output_price as the doubles they are
input_price64(m) ==
  fmul(float64(PricingGet(m.pricing, "prompt", Num(0))), FromInt(PerMillion))

output_price64(m) ==
  fmul(float64(PricingGet(m.pricing, "completion", Num(0))), FromInt(PerMillion))

\* calculate_conversation_cost without the division of the token totals
calculate_conversation_cost_NoDivision(m, user_tokens, model_tokens, turns) ==
  LET total_input_tokens  == user_tokens * turns
      total_output_tokens == model_tokens * turns
      input_cost  == fmul(FromInt(total_input_tokens), input_price64(m))
      output_cost == fmul(FromInt(total_output_tokens), output_price64(m))
  IN  fadd(input_cost, output_cost)

\* Model.calculate_conversation_cost
calculate_conversation_cost(m, user_tokens, model_tokens, turns) ==
  LET total_input_tokens  == user_tokens * turns
      total_output_tokens == model_tokens * turns
      input_cost  == fmul(IntTrueDiv(total_input_tokens, PerMillion), input_price64(m))
      output_cost == fmul(IntTrueDiv(total_output_tokens, PerMillion), output_price64(m))
  IN  fadd(input_cost, output_cost)

(***************************************************************************)
(* sorted(models, key=lambda m: m.total_price, reverse=...): Python's      *)
(* sort is stable in both directions, so an element goes after every       *)
(* element already placed whose key does not come strictly after its own.  *)
(***************************************************************************)
InsertByPrice(acc, m, reverse) ==
  LET k == Cardinality({ j \in 1..Len(acc) :
                           IF reverse
                           THEN total_price(acc[j]) >= total_price(m)
                           ELSE total_price(acc[j]) <= total_price(m) })
  IN  SubSeq(acc, 1, k) \o << m >> \o SubSeq(acc, k + 1, Len(acc))

RECURSIVE SortFrom(_, _, _, _)
SortFrom(ms, i, acc, reverse) ==
  IF i > Len(ms) THEN acc
  ELSE SortFrom(ms, i + 1, InsertByPrice(acc, ms[i], reverse), reverse)

\* the slice s[::-1]
Reverse(s) == [ i \in 1..Len(s) |-> s[Len(s) + 1 - i] ]

\* sorted with the ascending order taken as the descending one read backwards
sorted_Mirror(ms, reverse) ==
  IF reverse THEN SortFrom(ms, 1, << >>, TRUE)
  ELSE Reverse(SortFrom(ms, 1, << >>, TRUE))

sorted(ms, reverse) == SortFrom(ms, 1, << >>, reverse)

\* the key function of a sort raises as soon as one element's price does
SortRaises(ms) == \E i \in 1..Len(ms) : PriceRaises(ms[i])

\* the slice s[:n]
Take(s, n) == SubSeq(s, 1, IF Len(s) < n THEN Len(s) ELSE n)

(***************************************************************************)
(* OpenRouterClient.fetch_models: the loop over data['data'].              *)
(***************************************************************************)
\* model_data['id'] or model_data['name'] raises KeyError
ConstructionRaises(model_data) ==
  "id" \notin model_data.keys \/ "name" \notin model_data.keys

\* model_data.get('pricing', {})
PricingOf(model_data) ==
  IF "pricing" \in model_data.keys THEN model_data.pricing ELSE EmptyDict

\* the state of the loop after the records data[i..] were handled, starting
\* from the list `acc` and `warned` warnings
RECURSIVE ParseFrom(_, _, _, _)
ParseFrom(data, i, acc, warned) ==
  IF i > Len(data) THEN [ models |-> acc, warnings |-> warned ]
  ELSE IF ConstructionRaises(data[i])
       THEN ParseFrom(data, i + 1, acc, warned + 1)
       ELSE ParseFrom(data, i + 1,
                      Append(acc, Model(Len(acc) + 1, data[i].id, data[i].name,
                                        PricingOf(data[i]))),
                      warned)

\* ParseBatch leaving the loop at the first record it cannot construct
ParseBatch_AbortOnBad(data) ==
  LET bad == { i \in 1..Len(data) : ConstructionRaises(data[i]) }
  IN  IF bad = {} THEN ParseFrom(data, 1, << >>, 0)
      ELSE [ models   |-> ParseFrom(SubSeq(data, 1, (CHOOSE i \in bad : \A j \in bad : i <= j) - 1),
                                    1, << >>, 0).models,
             warnings |-> 1 ]

ParseBatch(data) == ParseFrom(data, 1, << >>, 0)

(***************************************************************************)
(* categorize_models.                                                      *)
(***************************************************************************)
\* any(kw in name_lower or kw in id_lower for kw in category_keywords)
Matches(m, category) ==
  \E k \in 1..Len(keywords[category]) :
     \/ Contains(keywords[category][k], lower(m.name))
     \/ Contains(keywords[category][k], lower(m.id))

\* the flag `matched` after the inner loop over the categories
Matched(m) == \E category \in CategorySet : Matches(m, category)

\* the least position of a category that m matches, 0 if there is none
FirstMatch(m) ==
  IF Matched(m)
  THEN CHOOSE i \in 1..Len(CATEGORIES) :
         /\ Matches(m, CATEGORIES[i])
         /\ \A j \in 1..(i - 1) : ~Matches(m, CATEGORIES[j])
  ELSE 0

\* AppendModel with a `break` after the first matching category
AppendModel_FirstOnly(cat, m) ==
  [ category \in CategorySet |->
      IF Matched(m) /\ category = CATEGORIES[FirstMatch(m)] THEN Append(cat[category], m)
      ELSE IF ~Matched(m) /\ category \in GeneralSet THEN Append(cat[category], m)
      ELSE cat[category] ]

\* AppendModel with the fallback applied whether or not the model matched
AppendModel_AlwaysGeneral(cat, m) ==
  [ category \in CategorySet |->
      IF Matches(m, category) \/ category \in GeneralSet THEN Append(cat[category], m)
      ELSE cat[category] ]

\* AppendModel inserting at the front of the member lists
AppendModel_Prepend(cat, m) ==
  [ category \in CategorySet |->
      IF Matches(m, category) THEN << m >> \o cat[category]
      ELSE IF ~Matched(m) /\ category \in GeneralSet THEN << m >> \o cat[category]
      ELSE cat[category] ]

\* one iteration of `for model in models`
AppendModel(cat, m) ==
  [ category \in CategorySet |->
      IF Matches(m, category) THEN Append(cat[category], m)
      ELSE IF ~Matched(m) /\ category \in GeneralSet THEN Append(cat[category], m)
      ELSE cat[category] ]

\* BackfillEmpty drawing the top records from the category's own members
BackfillEmpty_PerCategory(cat, ms) ==
  [ category \in CategorySet |->
      IF cat[category] = << >> THEN Take(sorted(cat[category], TRUE), BackfillCount)
      ELSE cat[category] ]

\* BackfillEmpty taking the first records of the input list as it stands
BackfillEmpty_Unsorted(cat, ms) ==
  [ category \in CategorySet |->
      IF cat[category] = << >> THEN Take(ms, BackfillCount)
      ELSE cat[category] ]

\* the loop `for category in CATEGORIES: if not categorized[category]: ...`
BackfillEmpty(cat, ms) ==
  [ category \in CategorySet |->
      IF cat[category] = << >> THEN Take(sorted(ms, TRUE), BackfillCount)
      ELSE cat[category] ]

\* that loop sorts, hence reads the prices, only for an empty category
BackfillRaises(cat, ms) ==
  /\ \E category \in CategorySet : cat[category] = << >>
  /\ SortRaises(ms)

(***************************************************************************)
(* rank_models and the views of generate_html.                             *)
(***************************************************************************)
\* rank_models sorting ascending and reversing the result
rank_models_ReversedAscending(ms) ==
  LET sorted_models == Reverse(sorted(ms, FALSE))
  IN  [ i \in 1..Len(sorted_models) |-> [ model |-> sorted_models[i], rank |-> i ] ]

rank_models(ms) ==
  LET sorted_models == sorted(ms, TRUE)
  IN  [ i \in 1..Len(sorted_models) |-> [ model |-> sorted_models[i], rank |-> i ] ]

\* RankingsGet over a rankings_map built from the first ViewCap pairs only
RankingsGet_Truncated(ranked_models, id) ==
  LET at == { j \in 1..Len(Take(ranked_models, ViewCap)) : ranked_models[j].model.id = id }
  IN  IF at = {} THEN UnknownRank
      ELSE ranked_models[CHOOSE j \in at : \A k \in at : k <= j].rank

\* rankings_map.get(id, '?') where rankings_map = {model.id: rank for ...}:
\* a later pair replaces an earlier one with the same identifier
RankingsGet(ranked_models, id) ==
  LET at == { j \in 1..Len(ranked_models) : ranked_models[j].model.id = id }
  IN  IF at = {} THEN UnknownRank
      ELSE ranked_models[CHOOSE j \in at : \A k \in at : k <= j].rank

\* the pairs (model, ranking) written into one list of the report
WithRanking(ms, ranked_models) ==
  [ i \in 1..Len(ms) |->
      [ model |-> ms[i], ranking |-> RankingsGet(ranked_models, ms[i].id) ] ]

free_models_of(ms) == Take(SelectSeq(ms, is_free), ViewCap)

NoSection ==
  [ ranked_models |-> << >>, by_price_high |-> << >>, by_price_low |-> << >>,
    free_models |-> << >>, daily_items |-> << >>, high_items |-> << >>,
    low_items |-> << >>, free_items |-> << >> ]

\* one iteration of `for category in CATEGORIES` in generate_html
Section(ms) ==
  IF ms = << >> THEN NoSection
  ELSE LET ranked_models == rank_models(ms)
           by_price_high == sorted(ms, TRUE)
           by_price_low  == sorted(ms, FALSE)
           free_models   == free_models_of(ms)
       IN  [ ranked_models |-> ranked_models,
             by_price_high |-> by_price_high,
             by_price_low  |-> by_price_low,
             free_models   |-> free_models,
             daily_items   |-> [ i \in 1..Len(Take(ranked_models, ViewCap)) |->
                                   ranked_models[i].model ],
             high_items    |-> WithRanking(Take(by_price_high, ViewCap), ranked_models),
             low_items     |-> WithRanking(Take(by_price_low, ViewCap), ranked_models),
             free_items    |-> WithRanking(free_models, ranked_models) ]

\* rank_models raises for the first category with a member it cannot price
GenerateRaises(cat) == \E category \in CategorySet : SortRaises(cat[category])

(***************************************************************************)
(* generate_expandable_list and the script function expandList.  Of an     *)
(* <li> the model keeps the class that reveals it and whether it carries   *)
(* the class `hidden`; of the button, data-state and textContent.  The     *)
(* value of data-state is a sequence of characters, read by parseInt.      *)
(***************************************************************************)
\* the button text `Show More... (shown/total)`
ShowMore(shown, total) == [ label |-> "Show More...", shown |-> shown, total |-> total ]

\* the button text `Show Less`
ShowLess == [ label |-> "Show Less", shown |-> 0, total |-> 0 ]

NoText == [ label |-> "", shown |-> 0, total |-> 0 ]

\* the values written to data-state
State5 == << "5" >>

State10 == << "1", "0" >>

State10Max == << "1", "0", "-", "m", "a", "x" >>

State25 == << "2", "5" >>

\* the markup generate_expandable_list returns for the entries models_data
generate_expandable_list(models_data, initial_count) ==
  LET total == Len(models_data)
  IN  [ items  |-> [ k \in 1..total |->
                       IF k - 1 < initial_count THEN [ show |-> "", hidden |-> FALSE ]
                       ELSE IF k - 1 < 10 THEN [ show |-> "show-10", hidden |-> TRUE ]
                       ELSE [ show |-> "show-25", hidden |-> TRUE ] ],
        button |-> total > initial_count,
        state  |-> IF total > initial_count THEN State5 ELSE << >>,
        text   |-> IF total > initial_count THEN ShowMore(5, total) ELSE NoText ]

\* a page on which no list is shown
NoPage == [ items |-> << >>, button |-> FALSE, state |-> << >>, text |-> NoText ]

IsDigit(ch) == \E n \in 0..9 : Digit(n) = ch

DigitValue(ch) == CHOOSE n \in 0..9 : Digit(n) = ch

\* parseInt: the number written by the leading decimal digits of s
\* (NaN, here -1, when s does not start with a digit)
RECURSIVE ParseIntFrom(_, _, _)
ParseIntFrom(s, i, acc) ==
  IF i > Len(s) \/ ~IsDigit(s[i]) THEN acc
  ELSE ParseIntFrom(s, i + 1, 10 * acc + DigitValue(s[i]))

parseInt(s) == IF s = << >> \/ ~IsDigit(s[1]) THEN -1 ELSE ParseIntFrom(s, 1, 0)

\* classList.remove('hidden') on the items of the classes in `shows`
Reveal(items, shows) ==
  [ k \in 1..Len(items) |->
      IF items[k].show \in shows THEN [ items[k] EXCEPT !.hidden = FALSE ] ELSE items[k] ]

\* classList.add('hidden') on the items of the classes in `shows`
Hide(items, shows) ==
  [ k \in 1..Len(items) |->
      IF items[k].show \in shows THEN [ items[k] EXCEPT !.hidden = TRUE ] ELSE items[k] ]

\* the script function expandList, applied to the list and its button
expandList(list) ==
  LET currentState == parseInt(list.state)
      totalItems   == Len(list.items)
  IN  IF currentState = 5
      THEN [ list EXCEPT !.items = Reveal(list.items, { "show-10" }),
                         !.state = IF totalItems > 10 THEN State10 ELSE State10Max,
                         !.text  = IF totalItems > 10 THEN ShowMore(10, totalItems)
                                   ELSE ShowLess ]
      ELSE IF currentState = 10
      THEN [ list EXCEPT !.items = Reveal(list.items, { "show-25" }),
                         !.state = State25,
                         !.text  = ShowLess ]
      ELSE [ list EXCEPT !.items = Hide(list.items, { "show-10", "show-25" }),
                         !.state = State5,
                         !.text  = ShowMore(5, totalItems) ]

(***************************************************************************)
(* The state of one run of main().                                         *)
(***************************************************************************)
VARIABLES
  pc,           \* position of main(): main, fetch, categorize, generate,
                \* write_html, write_css, done, exited
  api_key,      \* os.getenv('OPENROUTER_API_KEY')
  raw,          \* data['data'] of the upstream response
  models,       \* the list returned by fetch_models
  warnings,     \* number of "Skipping model" warnings logged
  idx,          \* position of `for model in models` in categorize_models
  categorized,  \* the dict `categorized`
  views,        \* per category, the lists generate_html computes
  html_file,    \* models-<date>.html: untouched, partial or written
  css_file,     \* style.css: untouched, partial or written
  exit_code,    \* status passed to sys.exit
  error,        \* what ended the run early
  dom,          \* one list of the written report, as a browser shows it
  call          \* a call of Model.calculate_conversation_cost

vars == << pc, api_key, raw, models, warnings, idx, categorized, views,
           html_file, css_file, exit_code, error, dom, call >>

\* os.getenv answers None for an unset variable
NoneKey == "<None>"

ApiKeys == { NoneKey, "", "sk-or-1" }

NoMembers == [ category \in CategorySet |-> << >> ]

NoViews == [ category \in CategorySet |-> NoSection ]

\* no call of calculate_conversation_cost is under way
NoCall ==
  [ stage |-> "idle", model |-> Model(0, << >>, << >>, EmptyDict),
    user_tokens |-> 0, model_tokens |-> 0, turns |-> 0, result |-> Zero64 ]

Init ==
  /\ pc = "main"
  /\ api_key \in ApiKeys
  /\ raw = << >>
  /\ models = << >>
  /\ warnings = 0
  /\ idx = 1
  /\ categorized = NoMembers
  /\ views = NoViews
  /\ html_file = "untouched"
  /\ css_file = "untouched"
  /\ exit_code = 0
  /\ error = "none"
  /\ dom = NoPage
  /\ call = NoCall

\* sys.exit(1), directly or from `except Exception` of main
Exit(cause) ==
  /\ pc' = "exited"
  /\ exit_code' = 1
  /\ error' = cause

\* CheckApiKey testing `api_key is None` in place of `not api_key`
CheckApiKey_NoneOnly ==
  /\ pc = "main"
  /\ IF api_key = NoneKey
     THEN Exit("no_api_key")
     ELSE pc' = "fetch" /\ UNCHANGED << exit_code, error >>
  /\ UNCHANGED << call, dom, api_key, raw, models, warnings, idx, categorized, views,
                  html_file, css_file >>

\* main: the credential check and the construction of the client
CheckApiKey ==
  /\ pc = "main"
  /\ IF api_key = NoneKey \/ api_key = ""
     THEN Exit("no_api_key")
     ELSE pc' = "fetch" /\ UNCHANGED << exit_code, error >>
  /\ UNCHANGED << call, dom, api_key, raw, models, warnings, idx, categorized, views,
                  html_file, css_file >>

\* fetch_models re-raises requests.RequestException; main exits
FetchFails ==
  /\ pc = "fetch"
  /\ Exit("RequestException")
  /\ UNCHANGED << call, dom, api_key, raw, models, warnings, idx, categorized, views,
                  html_file, css_file >>

\* fetch_models answers, then `if not models: sys.exit(1)`
FetchModels ==
  /\ pc = "fetch"
  /\ \E data \in Batches :
       LET parsed == ParseBatch(data)
       IN  /\ raw' = data
           /\ models' = parsed.models
           /\ warnings' = parsed.warnings
           /\ IF parsed.models = << >>
              THEN Exit("no_models")
              ELSE pc' = "categorize" /\ UNCHANGED << exit_code, error >>
  /\ idx' = 1
  /\ categorized' = NoMembers
  /\ UNCHANGED << call, dom, api_key, views, html_file, css_file >>

\* categorize_models: one iteration of `for model in models`
CategorizeModel ==
  /\ pc = "categorize"
  /\ idx <= Len(models)
  /\ categorized' = AppendModel(categorized, models[idx])
  /\ idx' = idx + 1
  /\ UNCHANGED << call, dom, pc, api_key, raw, models, warnings, views,
                  html_file, css_file, exit_code, error >>

\* categorize_models: the backfill of the empty categories, and the return
Backfill ==
  /\ pc = "categorize"
  /\ idx > Len(models)
  /\ IF BackfillRaises(categorized, models)
     THEN Exit("ValueError") /\ UNCHANGED categorized
     ELSE /\ categorized' = BackfillEmpty(categorized, models)
          /\ pc' = "generate"
          /\ UNCHANGED << exit_code, error >>
  /\ UNCHANGED << call, dom, api_key, raw, models, warnings, idx, views,
                  html_file, css_file >>

\* generate_html
GenerateHtml ==
  /\ pc = "generate"
  /\ IF GenerateRaises(categorized)
     THEN Exit("ValueError") /\ UNCHANGED views
     ELSE /\ views' = [ category \in CategorySet |-> Section(categorized[category]) ]
          /\ pc' = "write_html"
          /\ UNCHANGED << exit_code, error >>
  /\ UNCHANGED << call, dom, api_key, raw, models, warnings, idx, categorized,
                  html_file, css_file >>

\* main: open(html_filename, 'w') and f.write succeed
WriteHtml ==
  /\ pc = "write_html"
  /\ html_file' = "written"
  /\ pc' = "write_css"
  /\ UNCHANGED << call, dom, api_key, raw, models, warnings, idx, categorized, views,
                  css_file, exit_code, error >>

\* open fails (file untouched) or the write fails after open truncated it
WriteHtmlFails ==
  /\ pc = "write_html"
  /\ html_file' \in { "untouched", "partial" }
  /\ Exit("OSError")
  /\ UNCHANGED << call, dom, api_key, raw, models, warnings, idx, categorized, views,
                  css_file >>

\* main: open('style.css', 'w') and f.write succeed
WriteCss ==
  /\ pc = "write_css"
  /\ css_file' = "written"
  /\ pc' = "done"
  /\ UNCHANGED << call, dom, api_key, raw, models, warnings, idx, categorized, views,
                  html_file, exit_code, error >>

WriteCssFails ==
  /\ pc = "write_css"
  /\ css_file' \in { "untouched", "partial" }
  /\ Exit("OSError")
  /\ UNCHANGED << call, dom, api_key, raw, models, warnings, idx, categorized, views,
                  html_file >>

\* a browser loads the report, once it is on disk, and shows one of the
\* lists of a section
ViewList ==
  /\ html_file = "written"
  /\ \E category \in CategorySet :
       \E list \in { "daily_items", "high_items", "low_items", "free_items" } :
          /\ categorized[category] # << >>
          /\ list = "free_items" => views[category].free_models # << >>
          /\ dom' = generate_expandable_list(views[category][list], 5)
  /\ UNCHANGED << call, pc, api_key, raw, models, warnings, idx, categorized, views,
                  html_file, css_file, exit_code, error >>

\* the reader clicks the expand button of the list: onclick="expandList(...)"
ClickExpand ==
  /\ dom.button
  /\ dom' = expandList(dom)
  /\ UNCHANGED << call, pc, api_key, raw, models, warnings, idx, categorized, views,
                  html_file, css_file, exit_code, error >>

Next ==
  \/ CheckApiKey
  \/ FetchFails
  \/ FetchModels
  \/ CategorizeModel
  \/ Backfill
  \/ GenerateHtml
  \/ WriteHtml
  \/ WriteHtmlFails
  \/ WriteCss
  \/ WriteCssFails
  \/ ViewList
  \/ ClickExpand

Spec == Init /\ [][Next]_vars

(***************************************************************************)
(* Model.calculate_conversation_cost on its own: a model and the three     *)
(* arguments are chosen, then the method is called.                        *)
(***************************************************************************)
\* the raw prices of the calls, in RawUnit-ths of a dollar per token
CostPrices == 0..MaxCostPrice

CostUserTokens == { 0, 1, 125 }

CostModelTokens == { 0, 1, 375 }

CostTurns == { 0, 1, 3, 10 }

CostCalls ==
  { [ stage |-> "called",
      model |-> Model(1, <<"x">>, <<"X">>, Pricing(Num(p), Num(c))),
      user_tokens |-> u, model_tokens |-> mt, turns |-> t, result |-> Zero64 ] :
      p \in CostPrices, c \in CostPrices,
      u \in CostUserTokens, mt \in CostModelTokens, t \in CostTurns }

CostInit ==
  /\ pc = "main"
  /\ api_key = NoneKey
  /\ raw = << >>
  /\ models = << >>
  /\ warnings = 0
  /\ idx = 1
  /\ categorized = NoMembers
  /\ views = NoViews
  /\ html_file = "untouched"
  /\ css_file = "untouched"
  /\ exit_code = 0
  /\ error = "none"
  /\ dom = NoPage
  /\ call \in CostCalls

\* the call returns
CalculateCost ==
  /\ call.stage = "called"
  /\ call' = [ call EXCEPT
                 !.stage  = "returned",
                 !.result = calculate_conversation_cost(call.model, call.user_tokens,
                                                        call.model_tokens, call.turns) ]
  /\ UNCHANGED << pc, api_key, raw, models, warnings, idx, categorized, views,
                  html_file, css_file, exit_code, error, dom >>

CostNext == CalculateCost

CostSpec == CostInit /\ [][CostNext]_vars

TypeOK ==
  /\ pc \in { "main", "fetch", "categorize", "generate", "write_html",
              "write_css", "done", "exited" }
  /\ exit_code \in {0, 1}
  /\ idx \in 1..(Len(models) + 1)

(***************************************************************************)
(* Properties.                                                             *)
(***************************************************************************)
\* categorize_models has returned to main
CategorizeReturned == pc \in { "generate", "write_html", "write_css", "done" }

\* generate_html has returned to main
HtmlGenerated == pc \in { "write_html", "write_css", "done" }

\* fetch_models has returned to main
Fetched ==
  \/ pc \in { "categorize", "generate", "write_html", "write_css", "done" }
  \/ pc = "exited" /\ error \in { "no_models", "ValueError", "OSError" }

\* m is an element of the sequence s
In(m, s) == \E i \in 1..Len(s) : s[i] = m

\* C1: for a non-empty model list, once categorize_models has returned every
\* one of the 12 categories has at least one member, also when no model
\* matches any keyword.
C1_EveryCategoryNonEmpty ==
  (CategorizeReturned /\ models # << >>) =>
     \A category \in CategorySet : Len(categorized[category]) >= 1

\* categorize_models returned for a list in which no model matches a keyword
C1_Witness ==
  /\ CategorizeReturned
  /\ models # << >>
  /\ \A i \in 1..Len(models) : ~Matched(models[i])
  /\ \A category \in CategorySet : Len(categorized[category]) >= 1

\* C2: a model one of whose lowercased name or identifier contains a keyword
\* of a category is a member of that category in the returned dict; a model
\* matching several categories is a member of each.
C2_MatchImpliesMember ==
  CategorizeReturned =>
     \A i \in 1..Len(models) : \A category \in CategorySet :
        (\E k \in 1..Len(keywords[category]) :
            \/ Contains(keywords[category][k], lower(models[i].name))
            \/ Contains(keywords[category][k], lower(models[i].id)))
          => In(models[i], categorized[category])

\* "Research Code" was returned under Programming, Science and Academia,
\* next to a model that matched nothing
C2_Witness ==
  /\ CategorizeReturned
  /\ \E i, j \in 1..Len(models) :
        /\ models[i].name = <<"R","e","s","e","a","r","c","h"," ","C","o","d","e">>
        /\ In(models[i], categorized["Programming"])
        /\ In(models[i], categorized["Science"])
        /\ In(models[i], categorized["Academia"])
        /\ ~Matched(models[j])

\* C3: an iteration of the per-record loop appends its model to Technology,
\* Trivia and Academia by the fallback exactly when the model matches no
\* category; a model that matches some category is not added to a general
\* category it does not match.
C3_FallbackIffUnmatched ==
  [][ (pc = "categorize" /\ idx' = idx + 1) =>
        LET m == models[idx]
        IN  /\ ~Matched(m) =>
                 \A g \in GeneralSet : categorized'[g] = Append(categorized[g], m)
            /\ Matched(m) =>
                 \A g \in GeneralSet :
                    ~Matches(m, g) => categorized'[g] = categorized[g] ]_vars

\* the loop has handled an unmatched model, now in the general categories,
\* and a matched one that is in none of them
C3_Witness ==
  /\ pc = "categorize"
  /\ idx = Len(models) + 1
  /\ \E i, j \in 1..Len(models) :
        /\ ~Matched(models[i])
        /\ \A g \in GeneralSet : In(models[i], categorized[g])
        /\ Matched(models[j])
        /\ \A g \in GeneralSet : ~In(models[j], categorized[g])

\* sub can be obtained from full by deleting elements
RECURSIVE SubseqFrom(_, _, _, _)
SubseqFrom(sub, i, full, j) ==
  IF i > Len(sub) THEN TRUE
  ELSE IF j > Len(full) THEN FALSE
  ELSE IF sub[i] = full[j] THEN SubseqFrom(sub, i + 1, full, j + 1)
  ELSE SubseqFrom(sub, i, full, j + 1)

IsSubsequence(sub, full) == SubseqFrom(sub, 1, full, 1)

\* the elements of ms whose total_price is v, in the order of ms
WithPrice(ms, v) == SelectSeq(ms, LAMBDA m : total_price(m) = v)

PricesOf(ms) == { total_price(ms[i]) : i \in 1..Len(ms) }

\* ms holds two different objects of equal total_price
HasTie(ms) ==
  \E i, j \in 1..Len(ms) : i < j /\ total_price(ms[i]) = total_price(ms[j])

\* C4 as stated: every member sequence returned by categorize_models is an
\* order-preserving subsequence of the input list.
C4_EveryCategoryInInputOrder ==
  CategorizeReturned =>
     \A category \in CategorySet : IsSubsequence(categorized[category], models)

\* C4, amended: after the per-record loop every member sequence is an
\* order-preserving subsequence of the input list, and the backfill returns
\* unchanged every category that the loop left with a member.
C4_LoopFilledInInputOrder ==
  [][ (pc = "categorize" /\ pc' = "generate") =>
        \A category \in CategorySet :
           /\ IsSubsequence(categorized[category], models)
           /\ categorized[category] # << >> =>
                categorized'[category] = categorized[category] ]_vars

\* a category was returned with two members that the loop gave it
C4_Witness ==
  /\ CategorizeReturned
  /\ \E category \in CategorySet :
        /\ Len(categorized[category]) >= 2
        /\ \A i \in 1..Len(categorized[category]) :
              \/ Matches(categorized[category][i], category)
              \/ ~Matched(categorized[category][i]) /\ category \in GeneralSet

\* C5: rank_models lists the members of a category by descending
\* total_price with ranks 1..n, members of equal total_price in the order
\* they have in the member sequence.
C5_RankStableDescending ==
  HtmlGenerated =>
     \A category \in CategorySet :
        LET members == categorized[category]
            ranked  == views[category].ranked_models
            order   == [ i \in 1..Len(ranked) |-> ranked[i].model ]
        IN  /\ Len(ranked) = Len(members)
            /\ \A i \in 1..Len(ranked) : ranked[i].rank = i
            /\ \A i, j \in 1..Len(order) :
                  i < j => total_price(order[i]) >= total_price(order[j])
            /\ \A v \in PricesOf(members) \cup PricesOf(order) :
                  WithPrice(order, v) = WithPrice(members, v)

\* a category with two prices and two members of equal price was ranked
C5_Witness ==
  /\ HtmlGenerated
  /\ \E category \in CategorySet :
        /\ HasTie(categorized[category])
        /\ Cardinality(PricesOf(categorized[category])) >= 2
        /\ Len(views[category].ranked_models) = Len(categorized[category])

\* C6: by_price_low and by_price_high hold the same members, ascending and
\* descending by total_price, both with the members of equal total_price in
\* the order of the member sequence; with a tie the ascending view is not
\* the descending view read backwards.
C6_PriceViewsStable ==
  HtmlGenerated =>
     \A category \in CategorySet :
        LET members == categorized[category]
            high    == views[category].by_price_high
            low     == views[category].by_price_low
        IN  /\ Len(high) = Len(members) /\ Len(low) = Len(members)
            /\ \A i, j \in 1..Len(high) :
                  i < j => total_price(high[i]) >= total_price(high[j])
            /\ \A i, j \in 1..Len(low) :
                  i < j => total_price(low[i]) <= total_price(low[j])
            /\ \A v \in PricesOf(members) \cup PricesOf(high) \cup PricesOf(low) :
                  /\ WithPrice(high, v) = WithPrice(members, v)
                  /\ WithPrice(low, v) = WithPrice(members, v)
            /\ HasTie(members) => low # Reverse(high)

\* both views were computed for a category with a tie and two prices
C6_Witness ==
  /\ HtmlGenerated
  /\ \E category \in CategorySet :
        /\ HasTie(categorized[category])
        /\ Cardinality(PricesOf(categorized[category])) >= 2
        /\ Len(views[category].by_price_low) = Len(categorized[category])
        /\ views[category].by_price_low # views[category].by_price_high

\* C7: the free-tier shortlist holds only members whose input_price and
\* output_price are both zero, is a prefix of the members with that
\* property in their original order, and has at most 25 entries.
C7_FreeShortlist ==
  HtmlGenerated =>
     \A category \in CategorySet :
        LET free     == views[category].free_models
            all_free == SelectSeq(categorized[category],
                                  LAMBDA m : input_price(m) = 0 /\ output_price(m) = 0)
        IN  /\ Len(free) <= 25
            /\ Len(free) <= Len(all_free)
            /\ free = SubSeq(all_free, 1, Len(free))
            /\ \A i \in 1..Len(free) :
                  input_price(free[i]) = 0 /\ output_price(free[i]) = 0

\* a category with more than 25 free members, after members that are free
\* in one price only, got a shortlist of 25
C7_Witness ==
  /\ HtmlGenerated
  /\ \E category \in CategorySet :
        /\ Cardinality({ i \in 1..Len(categorized[category]) :
                           /\ input_price(categorized[category][i]) = 0
                           /\ output_price(categorized[category][i]) = 0 }) > 25
        /\ Len(views[category].free_models) = 25
        /\ \E i \in 1..Len(categorized[category]) :
              /\ input_price(categorized[category][i]) = 0
              /\ output_price(categorized[category][i]) > 0

\* the members of ms carry pairwise distinct identifiers
DistinctIds(ms) == \A i, j \in 1..Len(ms) : ms[i].id = ms[j].id => i = j

\* C8: in a category whose members have pairwise distinct identifiers every
\* item of the price-descending, price-ascending and free-tier lists carries
\* the position of its model in the heuristic ordering of all the members,
\* never '?'.
C8_ItemRankIsHeuristicPosition ==
  HtmlGenerated =>
     \A category \in CategorySet :
        DistinctIds(categorized[category]) =>
           LET ranked == views[category].ranked_models
               Right(item) ==
                 /\ item.ranking # UnknownRank
                 /\ item.ranking \in 1..Len(categorized[category])
                 /\ ranked[item.ranking].model = item.model
               AllRight(items) == \A i \in 1..Len(items) : Right(items[i])
           IN  /\ AllRight(views[category].high_items)
               /\ AllRight(views[category].low_items)
               /\ AllRight(views[category].free_items)

\* a list of a category with distinct identifiers shows a rank above 25
C8_Witness ==
  /\ HtmlGenerated
  /\ \E category \in CategorySet :
        /\ DistinctIds(categorized[category])
        /\ \E i \in 1..Len(views[category].low_items) :
              views[category].low_items[i].ranking > 25
        /\ \E i \in 1..Len(views[category].free_items) :
              views[category].free_items[i].ranking > 25

\* C9: fetch_models returns, in upstream order, one Model for each raw
\* record that has both an id and a name, and logs one warning for each of
\* the other records.
C9_DropsExactlyMalformed ==
  Fetched =>
     LET kept == SelectSeq(raw, LAMBDA r : "id" \in r.keys /\ "name" \in r.keys)
     IN  /\ Len(models) = Len(kept)
         /\ \A i \in 1..Len(kept) :
               models[i].id = kept[i].id /\ models[i].name = kept[i].name
         /\ warnings = Len(raw) - Len(kept)

\* a batch with a malformed record between two well-formed ones was fetched
C9_Witness ==
  /\ Fetched
  /\ Len(raw) = 3
  /\ "id" \notin raw[2].keys
  /\ Len(models) = 2
  /\ warnings = 1
  /\ models[2].id = raw[3].id

\* C10 as stated: a record with a non-numeric price never ends the run; no
\* run exits on the ValueError of float().
C10_NonNumericPriceNeverAborts ==
  ~(pc = "exited" /\ error = "ValueError")

\* C11 as stated: a run that ended with a non-zero exit status, whatever
\* the cause and the stage, has written no output file, in whole or in part.
C11_NoOutputOnFatalExit ==
  (pc = "exited" /\ exit_code # 0) =>
     html_file = "untouched" /\ css_file = "untouched"

\* C12: with the credential unset or empty, main leaves its first step only
\* by exiting with status 1, and never constructs the client, fetches or
\* writes a file; whatever lies past the credential check is reached only
\* with a credential.
C12_NoCredentialNoActivity ==
  /\ (api_key = NoneKey \/ api_key = "") =>
        /\ pc \in { "main", "exited" }
        /\ pc = "exited" => exit_code = 1 /\ error = "no_api_key"
        /\ raw = << >> /\ models = << >>
        /\ html_file = "untouched" /\ css_file = "untouched"
  /\ (pc \notin { "main", "exited" } \/ (pc = "exited" /\ error # "no_api_key")) =>
        api_key \notin { NoneKey, "" }

\* a run with an empty credential has exited
C12_Witness ==
  /\ api_key = ""
  /\ pc = "exited"
  /\ exit_code = 1
  /\ raw = << >>

\* the upstream batch of the end-to-end scenario
ScenarioInput ==
  << RawRecord(AllKeys, <<"a">>, <<"C","o","d","e","M","a","s","t","e","r">>,
               Pricing(Num(0), Num(0))),
     RawRecord(AllKeys, <<"b">>, <<"G","e","n","e","r","i","c"," ","C","h","a","t">>,
               Pricing(Num(2), Num(6))) >>

\* the rank of m in the heuristic ordering of a category, 0 if it has none
RankIn(category, m) ==
  LET ranked == views[category].ranked_models
      at     == { i \in 1..Len(ranked) : ranked[i].model = m }
  IN  IF at = {} THEN 0 ELSE ranked[CHOOSE i \in at : TRUE].rank

\* what the scenario states of both models apart from the keywords of 'b'
ScenarioCommon(a, b) ==
  /\ In(a, categorized["Programming"])
  /\ Contains(<<"c","o","d","e">>, lower(a.name))
  /\ \A g \in GeneralSet : In(b, categorized[g])
  /\ input_price(a) = 0 /\ output_price(a) = 0
  /\ total_price(b) = 8
  /\ \A category \in CategorySet :
        (In(a, categorized[category]) /\ In(b, categorized[category])) =>
           RankIn(category, b) = 1 /\ RankIn(category, a) = 2

\* C14 as stated: in the scenario 'a' is in Programming, 'b' matches no
\* keyword of any category and is in Technology, Trivia and Academia, 'a'
\* is free, total_price('b') is 8, and 'b' ranks 1 and 'a' 2 wherever both are.
C14_ScenarioAsStated ==
  (HtmlGenerated /\ raw = ScenarioInput) =>
     /\ ScenarioCommon(models[1], models[2])
     /\ \A category \in CategorySet :
           \A k \in 1..Len(keywords[category]) :
              /\ ~Contains(keywords[category][k], lower(models[2].name))
              /\ ~Contains(keywords[category][k], lower(models[2].id))

\* C14, amended: as stated, except that 'b' matches the Roleplay keyword
\* "chat": Roleplay is returned as [b], and the ten categories that neither
\* model matches, the three general ones among them, are backfilled with
\* [b, a].
C14_ScenarioChatMatches ==
  (HtmlGenerated /\ raw = ScenarioInput) =>
     /\ ScenarioCommon(models[1], models[2])
     /\ Contains(<<"c","h","a","t">>, lower(models[2].name))
     /\ categorized["Programming"] = << models[1] >>
     /\ categorized["Roleplay"] = << models[2] >>
     /\ \A category \in CategorySet \ { "Programming", "Roleplay" } :
           categorized[category] = << models[2], models[1] >>

\* the report of the scenario was generated
C14_Witness ==
  /\ HtmlGenerated
  /\ raw = ScenarioInput
  /\ Len(models) = 2
  /\ Len(views["Technology"].ranked_models) = 2

\* the place of models[i] in the stable descending order of the whole input:
\* one more than the number of models that are dearer, or as dear and earlier
PlaceInInput(i) ==
  1 + Cardinality({ j \in 1..Len(models) :
                      \/ total_price(models[j]) > total_price(models[i])
                      \/ total_price(models[j]) = total_price(models[i]) /\ j < i })

\* C15: the backfill sets every category without a member to the first
\* min(10, N) models of the stable descending total_price order of the whole
\* input list, whether or not they are members elsewhere, and leaves every
\* other category as it is.
C15_BackfillTopTenOfInput ==
  [][ (pc = "categorize" /\ pc' = "generate") =>
        \A category \in CategorySet :
           IF categorized[category] = << >>
           THEN LET filled == categorized'[category]
                IN  /\ Len(filled) = IF Len(models) < 10 THEN Len(models) ELSE 10
                    /\ \A k \in 1..Len(filled) :
                          /\ filled[k] = models[filled[k].ref]
                          /\ PlaceInInput(filled[k].ref) = k
           ELSE categorized'[category] = categorized[category] ]_vars

\* out of more than 10 models, a category none of them matches was filled
\* with 10, one of which is a member of a category it matches
C15_Witness ==
  /\ pc = "generate"
  /\ Len(models) > 10
  /\ \E category \in CategorySet :
        /\ Len(categorized[category]) = 10
        /\ \A i \in 1..Len(models) : ~Matches(models[i], category)
        /\ category \notin GeneralSet
        /\ \E k \in 1..10 : Matched(categorized[category][k])
        /\ \E i, j \in 1..10 :
              i < j /\ total_price(categorized[category][i]) = total_price(categorized[category][j])

\* the positions of the items of a list that are shown
Visible(list) == { k \in 1..Len(list.items) : ~list.items[k].hidden }

\* C16 as stated: whatever the length of the list, a click on a button that
\* reads "Show Less" leaves the first 5 items visible, state '5' and the
\* text "Show More... (5/total)".  Only the steps that are such a click
\* (the list becomes what expandList makes of it) are constrained.
C16_ShowLessCollapses ==
  [][ (dom.button /\ dom.text.label = "Show Less" /\ dom' = expandList(dom)) =>
        /\ Visible(dom') = 1..5
        /\ dom'.state = << "5" >>
        /\ dom'.text = [ label |-> "Show More...", shown |-> 5, total |-> Len(dom.items) ] ]_vars

\* the raw per-token prices of the model of the call, as doubles
PromptPrice == float64(PricingGet(call.model.pricing, "prompt", Num(0)))

CompletionPrice == float64(PricingGet(call.model.pricing, "completion", Num(0)))

\* turns * (user_tokens * prompt_price + model_tokens * completion_price),
\* evaluated in doubles
DirectCost ==
  fmul(FromInt(call.turns),
       fadd(fmul(FromInt(call.user_tokens), PromptPrice),
            fmul(FromInt(call.model_tokens), CompletionPrice)))

\* the least binary exponent among the prices and the result of the call
LowExponent ==
  LET es == { PromptPrice.e, CompletionPrice.e, call.result.e }
  IN  CHOOSE e \in es : \A f \in es : e <= f

\* the exact value of that expression, and the result of the call, both as
\* multiples of 2^LowExponent
ExactCost ==
  BigAdd(BigShl(BigMulSmall(PromptPrice.m, call.turns * call.user_tokens),
                PromptPrice.e - LowExponent),
         BigShl(BigMulSmall(CompletionPrice.m, call.turns * call.model_tokens),
                CompletionPrice.e - LowExponent))

ReturnedCost == BigShl(call.result.m, call.result.e - LowExponent)

CostError ==
  IF BigLeq(ReturnedCost, ExactCost) THEN BigSub(ExactCost, ReturnedCost)
  ELSE BigSub(ReturnedCost, ExactCost)

\* C13 as stated: the value calculate_conversation_cost returns equals
\* turns * (user_tokens * prompt_price + model_tokens * completion_price).
C13_CostEqualsDirectFormula ==
  call.stage = "returned" => call.result = DirectCost

\* C13, amended: the returned double lies within 2^-50, relatively, of the
\* exact value of turns * (user_tokens * prompt_price + model_tokens *
\* completion_price): the two scalings by 1,000,000 cancel up to the
\* rounding of the floating-point operations.
C13_CostWithinRounding ==
  call.stage = "returned" => BigLeq(BigShl(CostError, 50), ExactCost)

\* the default conversation returned a cost that is not the double of the
\* direct formula
C13_Witness ==
  /\ call.stage = "returned"
  /\ call.user_tokens = 125 /\ call.model_tokens = 375 /\ call.turns = 10
  /\ call.result # Zero64
  /\ call.result # DirectCost

====
